---- MODULE Spec2Model ----
(***************************************************************************)
(* A/B test simulation core of vertigo-case-study:                         *)
(*   src/src/retention.py      linear_retention, retention_new_variant_a,  *)
(*                             retention_new_variant_b                     *)
(*   src/src/ab_test_task_1.py simulate_dau, combine_sources,              *)
(*                             simulate_revenue                            *)
(*                                                                         *)
(* Every function is pure; the state machine is one call of one function:  *)
(* a Call action draws the arguments, the function runs (in one step where *)
(* only its result matters, statement by statement where the order of its  *)
(* effects matters) and ends "returned" or "raised".                       *)
(*                                                                         *)
(* Python floats are modelled as exact rationals [n, d] in lowest terms:   *)
(* the arithmetic is that of the reals, rounding is not modelled.  math.exp *)
(* is exact at 0 and a rational approximation elsewhere.                   *)
(***************************************************************************)
EXTENDS Integers, Sequences, FiniteSets, TLC

\* ------------------------------------------------------------- bounds
\* largest day that is a key of a retention point table
MaxKey == 4
\* how far past MaxKey the day argument of linear_retention goes
Beyond == 3
\* how far before day 1 the day argument of the retention functions goes
Before == 2
\* longest install series (simulation horizon in days)
MaxDays == 3
\* largest number of series handed to combine_sources
MaxSources == 3
\* longest series handed to combine_sources
MaxLen == 2

\* ------------------------------------------------------------- floats
RECURSIVE GCD(_, _)
GCD(a, b) == IF b = 0 THEN a ELSE GCD(b, a % b)

Abs(x) == IF x < 0 THEN -x ELSE x

\* the float n/d (d > 0), in lowest terms
Rat(n, d) ==
    LET g == GCD(Abs(n), d)
    IN  [n |-> n \div g, d |-> d \div g]

Zero == Rat(0, 1)
One == Rat(1, 1)
\* float(i) of an int i
FromInt(i) == Rat(i, 1)

RAdd(a, b) == Rat(a.n * b.d + b.n * a.d, a.d * b.d)
RSub(a, b) == Rat(a.n * b.d - b.n * a.d, a.d * b.d)
RMul(a, b) == Rat(a.n * b.n, a.d * b.d)
\* float / positive int
RDivInt(a, k) == Rat(a.n, a.d * k)
\* int * float
RMulInt(k, a) == Rat(k * a.n, a.d)
RLt(a, b) == a.n * b.d < b.n * a.d
\* Python max(a, b): b only when it is strictly greater
RMax(a, b) == IF RLt(a, b) THEN b ELSE a

\* ------------------------------------------------------------- results
\* a call's outcome: a value, or the exception it raised
Ok(v) == [exc |-> "none", val |-> v]
Raise(e, v) == [exc |-> e, val |-> v]

\* ------------------------------------------------------------- retention.py
\* sorted(S) for a set of ints: the ascending list of its elements
RECURSIVE sorted(_)
sorted(S) ==
    IF S = {} THEN <<>>
    ELSE LET m == CHOOSE x \in S : \A y \in S : y <= x
         IN  Append(sorted(S \ {m}), m)

\* max / min of a generator over known_days
MaxOf(S) == CHOOSE x \in S : \A y \in S : y <= x
MinOf(S) == CHOOSE x \in S : \A y \in S : x <= y

\* the branch "day is after the last known point" without the clamp at 0.0
extrapolate_unclamped(day, points, known_days) ==
    IF Len(known_days) < 2 THEN Raise("IndexError", Zero)
    ELSE LET d1 == known_days[Len(known_days) - 1]
             d2 == known_days[Len(known_days)]
             r1 == points[d1]
             r2 == points[d2]
             slope == RDivInt(RSub(r2, r1), d2 - d1)
         IN  Ok(RAdd(r2, RMulInt(day - d2, slope)))

\* the branch "day is after the last known point" holding the last value
\* when the table has a single point
extrapolate_flat(day, points, known_days) ==
    IF Len(known_days) < 2 THEN Ok(points[known_days[Len(known_days)]])
    ELSE LET d1 == known_days[Len(known_days) - 1]
             d2 == known_days[Len(known_days)]
             r1 == points[d1]
             r2 == points[d2]
             slope == RDivInt(RSub(r2, r1), d2 - d1)
         IN  Ok(RMax(Zero, RAdd(r2, RMulInt(day - d2, slope))))

\* the branch "day is after the last known point": known_days[-2] and
\* known_days[-1], the slope between them, clamped at 0.0
extrapolate(day, points, known_days) ==
    IF Len(known_days) < 2 THEN Raise("IndexError", Zero)
    ELSE LET d1 == known_days[Len(known_days) - 1]
             d2 == known_days[Len(known_days)]
             r1 == points[d1]
             r2 == points[d2]
             slope == RDivInt(RSub(r2, r1), d2 - d1)
         IN  Ok(RMax(Zero, RAdd(r2, RMulInt(day - d2, slope))))

\* the interval branch taking the first known day as prev_day
interpolate_from_first(day, points, known_days) ==
    LET below == {known_days[i] : i \in {j \in 1..Len(known_days) : known_days[j] < day}}
        above == {known_days[i] : i \in {j \in 1..Len(known_days) : known_days[j] > day}}
    IN  IF below = {} \/ above = {} THEN Raise("ValueError", Zero)
        ELSE LET prev_day == MinOf(below)
                 next_day == MinOf(above)
                 r1 == points[prev_day]
                 r2 == points[next_day]
                 slope == RDivInt(RSub(r2, r1), next_day - prev_day)
             IN  Ok(RAdd(r1, RMulInt(day - prev_day, slope)))

\* the branch "find the interval where it falls": max() / min() of an empty
\* generator raise ValueError
interpolate(day, points, known_days) ==
    LET below == {known_days[i] : i \in {j \in 1..Len(known_days) : known_days[j] < day}}
        above == {known_days[i] : i \in {j \in 1..Len(known_days) : known_days[j] > day}}
    IN  IF below = {} \/ above = {} THEN Raise("ValueError", Zero)
        ELSE LET prev_day == MaxOf(below)
                 next_day == MinOf(above)
                 r1 == points[prev_day]
                 r2 == points[next_day]
                 slope == RDivInt(RSub(r2, r1), next_day - prev_day)
             IN  Ok(RAdd(r1, RMulInt(day - prev_day, slope)))

\* linear_retention without the exact-point test
linear_retention_no_exact(day, points) ==
    IF day <= 1 THEN Ok(One)
    ELSE LET known_days == sorted(DOMAIN points)
         IN  IF Len(known_days) = 0 THEN Raise("IndexError", Zero)
             ELSE IF day > known_days[Len(known_days)]
                  THEN extrapolate(day, points, known_days)
                  ELSE interpolate(day, points, known_days)

\* linear_retention(day, points); points is a dict {day: fraction}
linear_retention(day, points) ==
    IF day <= 1 THEN Ok(One)
    ELSE IF day \in DOMAIN points THEN Ok(points[day])
    ELSE LET known_days == sorted(DOMAIN points)
         IN  \* known_days[-1] of an empty list
             IF Len(known_days) = 0 THEN Raise("IndexError", Zero)
             ELSE IF day > known_days[Len(known_days)]
                  THEN extrapolate(day, points, known_days)
                  ELSE interpolate(day, points, known_days)

\* math.exp(x) at a float x <= 0: exactly 1.0 at 0; elsewhere the rational
\* (2 + x) / (2 - x), which is within 0.04 of e^x on [-1, 0] and, like e^x,
\* positive, below 1 and increasing there (the ages modelled keep x above -1)
exp(x) == IF x = Zero THEN One ELSE Rat(2 * x.d + x.n, 2 * x.d - x.n)

\* retention_new_variant_a with full retention before the install day, the
\* convention of linear_retention
retention_new_variant_a_unified(day) ==
    IF day < 1 THEN Ok(One)
    ELSE Ok(RMul(Rat(58, 100), exp(RMulInt(day - 1, Rat(-12, 100)))))

\* retention_new_variant_a(day) = 0.58 * e^(-0.12 * (day - 1))
retention_new_variant_a(day) ==
    IF day < 1 THEN Ok(Zero)
    ELSE Ok(RMul(Rat(58, 100), exp(RMulInt(day - 1, Rat(-12, 100)))))

\* retention_new_variant_b(day) = 0.52 * e^(-0.10 * (day - 1))
retention_new_variant_b(day) ==
    IF day < 1 THEN Ok(Zero)
    ELSE Ok(RMul(Rat(52, 100), exp(RMulInt(day - 1, Rat(-10, 100)))))

\* ------------------------------------------------------------- ab_test_task_1.py
\* age = install_day, the install day taken for the cohort's age
age_is_install_day(current_day, install_day) == install_day

\* age = current_day - install_day + 1
age(current_day, install_day) == current_day - install_day + 1

\* the contribution of a cohort without its install count
contribution_no_installs(installs, retention_fn, a) == retention_fn[a]

\* the contribution of a cohort cut down to whole users: int(installs * r)
contribution_whole_users(installs, retention_fn, a) ==
    LET c == RMulInt(installs, retention_fn[a])
    IN  FromInt(c.n \div c.d)

\* installs * retention_fn(age)
contribution(installs, retention_fn, a) == RMulInt(installs, retention_fn[a])

\* active_users after the inner loop has run install days 1..install_day of
\* current_day ("for install_day in range(1, current_day + 1)")
RECURSIVE cohort_loop(_, _, _, _)
cohort_loop(daily_installs, retention_fn, current_day, install_day) ==
    IF install_day = 0 THEN Zero
    ELSE RAdd(cohort_loop(daily_installs, retention_fn, current_day, install_day - 1),
              contribution(daily_installs[install_day], retention_fn,
                           age(current_day, install_day)))

\* the inner loop run over every install day of the series, later ones
\* included, with the distance in days as the age
RECURSIVE cohort_loop_any_day(_, _, _, _)
cohort_loop_any_day(daily_installs, retention_fn, current_day, install_day) ==
    IF install_day = 0 THEN Zero
    ELSE RAdd(cohort_loop_any_day(daily_installs, retention_fn, current_day,
                                  install_day - 1),
              contribution(daily_installs[install_day], retention_fn,
                           Abs(current_day - install_day) + 1))

active_users_all_days(daily_installs, retention_fn, current_day) ==
    cohort_loop_any_day(daily_installs, retention_fn, current_day, Len(daily_installs))

\* the inner loop stopping before the cohort of current_day itself
active_users_before_today(daily_installs, retention_fn, current_day) ==
    cohort_loop(daily_installs, retention_fn, current_day, current_day - 1)

\* active_users of one current_day: every cohort 1..current_day
active_users(daily_installs, retention_fn, current_day) ==
    cohort_loop(daily_installs, retention_fn, current_day, current_day)

\* dau after the outer loop has run days 1..current_day
RECURSIVE dau_loop(_, _, _)
dau_loop(daily_installs, retention_fn, current_day) ==
    IF current_day = 0 THEN <<>>
    ELSE Append(dau_loop(daily_installs, retention_fn, current_day - 1),
                active_users(daily_installs, retention_fn, current_day))

\* simulate_dau(daily_installs, retention_fn)
simulate_dau(daily_installs, retention_fn) ==
    LET days == Len(daily_installs)
    IN  Ok(dau_loop(daily_installs, retention_fn, days))

\* day_sum = source[day_idx] in place of +=: the last source alone
day_sum_overwrite(dau_sources, day_idx, k) ==
    IF k = 0 THEN Zero ELSE dau_sources[k][day_idx + 1]

\* day_sum after the inner loop has added sources 1..k at day_idx (0-based)
RECURSIVE day_sum(_, _, _)
day_sum(dau_sources, day_idx, k) ==
    IF k = 0 THEN Zero
    ELSE RAdd(day_sum(dau_sources, day_idx, k - 1), dau_sources[k][day_idx + 1])

\* the outer loop from day_idx on, total_dau holding the days before it;
\* source[day_idx] past the end of a source raises IndexError
RECURSIVE combine_loop(_, _, _, _)
combine_loop(dau_sources, days, day_idx, total_dau) ==
    IF day_idx = days THEN Ok(total_dau)
    ELSE IF \E k \in 1..Len(dau_sources) : Len(dau_sources[k]) < day_idx + 1
         THEN Raise("IndexError", <<>>)
         ELSE combine_loop(dau_sources, days, day_idx + 1,
                  Append(total_dau, day_sum(dau_sources, day_idx, Len(dau_sources))))

\* combine_sources(*dau_sources)
combine_sources(dau_sources) ==
    IF Len(dau_sources) = 0 THEN Ok(<<>>)
    ELSE LET days == Len(dau_sources[1])
         IN  combine_loop(dau_sources, days, 0, <<>>)

\* VariantConfig of variant A and of variant B (the name is a label only)
variant_a == [name |-> "A", base_purchase_rate |-> Rat(61, 2000),
              ecpm |-> Rat(49, 5), ad_impressions_per_dau |-> Rat(23, 10)]
variant_b == [name |-> "B", base_purchase_rate |-> Rat(63, 2000),
              ecpm |-> Rat(54, 5), ad_impressions_per_dau |-> Rat(8, 5)]

\* a VariantConfig with round numbers: 3% purchase rate, eCPM 10, 2 impressions
variant_round == [name |-> "R", base_purchase_rate |-> Rat(3, 100),
                  ecpm |-> FromInt(10), ad_impressions_per_dau |-> FromInt(2)]

\* arppu=5.0, the default the callers leave in place
arppu == FromInt(5)
\* sale_boost_abs=0.0 by default, 0.01 when the caller runs a sale
default_boost == Zero
sale_boost == Rat(1, 100)
\* sale_period=None
None == <<>>

\* the sale window without its last day (start <= day_number < end)
purchase_rate_open_end(v, period, boost, day_number) ==
    IF period # None /\ period[1] <= day_number /\ day_number < period[2]
    THEN RAdd(v.base_purchase_rate, boost)
    ELSE v.base_purchase_rate

\* the assert compiled out
assert_skipped(installs_total, dau) == TRUE

\* assert len(daily_installs_total) == len(dau_total)
assert_lengths(installs_total, dau) == Len(installs_total) = Len(dau)

\* purchase_rate of day_number: the base rate, plus the boost inside the window
purchase_rate(v, period, boost, day_number) ==
    IF period # None /\ period[1] <= day_number /\ day_number <= period[2]
    THEN RAdd(v.base_purchase_rate, boost)
    ELSE v.base_purchase_rate

\* total of one day: iap_revenue + ad_revenue
day_revenue(v, installs, dau_value, period, boost, day_number) ==
    LET iap_revenue == RMul(RMulInt(installs, purchase_rate(v, period, boost, day_number)),
                            arppu)
        ad_impressions == RMul(dau_value, v.ad_impressions_per_dau)
        ad_revenue == RDivInt(RMul(ad_impressions, v.ecpm), 1000)
    IN  RAdd(iap_revenue, ad_revenue)

\* ------------------------------------------------------------- inputs
\* retention fractions of a point table (1/4, 1/2 and the two ends of [0,1])
RetVals == {Zero, Rat(1, 4), Rat(1, 2), One}
\* point tables: any set of days 1..MaxKey as keys, the empty table included
Tables == UNION {[K -> RetVals] : K \in SUBSET (1..MaxKey)}
\* the day argument: from Before days before day 1 (ages before the install)
\* up to Beyond days past the last key
Days == (1 - Before)..(MaxKey + Beyond)
\* lists of length 0..n over S
SeqsUpTo(S, n) == UNION {[1..k -> S] : k \in 0..n}
\* install counts of one day
InstallVals == {0, 1, 2}
\* the fractions a retention function returns
AgeVals == {Rat(1, 4), Rat(1, 2), One}
\* retention functions, as the values they return at the ages 1..MaxDays
RetentionFns == [1..MaxDays -> AgeVals]
\* DAU values of one day and source
DauVals == {Rat(1, 2), FromInt(2)}
\* total installs of one day in the revenue model
TotalInstallVals == {0, 2}
\* sale windows (start_day, end_day), the empty ones with end < start included
SalePeriods == {None} \cup ((1..MaxDays) \X (1..MaxDays))

\* the arguments of simulate_revenue: every combination of a variant of the
\* A/B test, two series of up to MaxDays days and a sale window ...
RevenueArgs ==
    [variant : {variant_a, variant_b},
     installs : SeqsUpTo(TotalInstallVals, MaxDays),
     dau : SeqsUpTo(DauVals, MaxDays),
     period : SalePeriods]
\* ... and five days of 100 installs and 100 DAU under the round-number
\* variant, without a sale and with a sale on the days 2..4
RoundRuns ==
    [variant : {variant_round},
     installs : {[i \in 1..5 |-> 100]},
     dau : {[i \in 1..5 |-> FromInt(100)]},
     period : {None, <<2, 4>>}]

\* ------------------------------------------------------------- state
VARIABLES
    fn,                    \* the function called ("none" before the call)
    pc,                    \* "idle", a position in the function, "returned", "raised"
    exc,                   \* the exception raised ("none" if none)
    day, points, ret,      \* linear_retention: arguments and return value
    daily_installs, retention_fn, dau,   \* simulate_dau
    dau_sources, total_dau,              \* combine_sources
    variant, daily_installs_total, dau_total, sale_period, sale_boost_abs,
    day_idx, daily_revenue               \* simulate_revenue

vars == <<fn, pc, exc, day, points, ret, daily_installs, retention_fn, dau,
          dau_sources, total_dau, variant, daily_installs_total, dau_total,
          sale_period, sale_boost_abs, day_idx, daily_revenue>>

retentionVars == <<day, points, ret>>
dauVars == <<daily_installs, retention_fn, dau>>
combineVars == <<dau_sources, total_dau>>
revenueVars == <<variant, daily_installs_total, dau_total, sale_period,
                 sale_boost_abs, day_idx, daily_revenue>>

Init ==
    /\ fn = "none" /\ pc = "idle" /\ exc = "none"
    /\ day = 0 /\ points = <<>> /\ ret = Zero
    /\ daily_installs = <<>> /\ retention_fn = <<>> /\ dau = <<>>
    /\ dau_sources = <<>> /\ total_dau = <<>>
    /\ variant = variant_a /\ daily_installs_total = <<>> /\ dau_total = <<>>
    /\ sale_period = None /\ sale_boost_abs = default_boost
    /\ day_idx = 0 /\ daily_revenue = <<>>

\* how a finished call leaves pc
Finished(r) == IF r.exc = "none" THEN "returned" ELSE "raised"

\* one call linear_retention(d, p)
CallLinearRetention ==
    /\ pc = "idle"
    /\ \E d \in Days, p \in Tables :
          LET r == linear_retention(d, p)
          IN  /\ fn' = "linear_retention"
              /\ day' = d /\ points' = p
              /\ ret' = r.val /\ exc' = r.exc /\ pc' = Finished(r)
    /\ UNCHANGED <<dauVars, combineVars, revenueVars>>

\* one call retention_new_variant_a(d)
CallRetentionNewVariantA ==
    /\ pc = "idle"
    /\ \E d \in Days :
          LET r == retention_new_variant_a(d)
          IN  /\ fn' = "retention_new_variant_a"
              /\ day' = d
              /\ ret' = r.val /\ exc' = r.exc /\ pc' = Finished(r)
    /\ UNCHANGED <<points, dauVars, combineVars, revenueVars>>

\* one call retention_new_variant_b(d)
CallRetentionNewVariantB ==
    /\ pc = "idle"
    /\ \E d \in Days :
          LET r == retention_new_variant_b(d)
          IN  /\ fn' = "retention_new_variant_b"
              /\ day' = d
              /\ ret' = r.val /\ exc' = r.exc /\ pc' = Finished(r)
    /\ UNCHANGED <<points, dauVars, combineVars, revenueVars>>

\* one call simulate_dau(installs, f)
CallSimulateDau ==
    /\ pc = "idle"
    /\ \E installs \in SeqsUpTo(InstallVals, MaxDays), f \in RetentionFns :
          LET r == simulate_dau(installs, f)
          IN  /\ fn' = "simulate_dau"
              /\ daily_installs' = installs /\ retention_fn' = f
              /\ dau' = r.val /\ exc' = r.exc /\ pc' = Finished(r)
    /\ UNCHANGED <<retentionVars, combineVars, revenueVars>>

\* one call combine_sources(*srcs)
CallCombineSources ==
    /\ pc = "idle"
    /\ \E srcs \in SeqsUpTo(SeqsUpTo(DauVals, MaxLen), MaxSources) :
          LET r == combine_sources(srcs)
          IN  /\ fn' = "combine_sources"
              /\ dau_sources' = srcs
              /\ total_dau' = r.val /\ exc' = r.exc /\ pc' = Finished(r)
    /\ UNCHANGED <<retentionVars, dauVars, revenueVars>>

\* simulate_revenue is entered: the arguments are bound
CallSimulateRevenue ==
    /\ pc = "idle"
    /\ \E a \in RevenueArgs \cup RoundRuns :
          /\ fn' = "simulate_revenue"
          /\ variant' = a.variant
          /\ daily_installs_total' = a.installs /\ dau_total' = a.dau
          /\ sale_period' = a.period
          /\ sale_boost_abs' = IF a.period = None THEN default_boost ELSE sale_boost
    /\ pc' = "assert"
    /\ UNCHANGED <<exc, day_idx, daily_revenue, retentionVars, dauVars, combineVars>>

\* the assert, then daily_revenue = []
RevenueAssert ==
    /\ fn = "simulate_revenue" /\ pc = "assert"
    /\ IF assert_lengths(daily_installs_total, dau_total)
       THEN /\ pc' = "loop" /\ daily_revenue' = <<>> /\ day_idx' = 0
            /\ exc' = exc
       ELSE /\ pc' = "raised" /\ exc' = "AssertionError"
            /\ UNCHANGED <<daily_revenue, day_idx>>
    /\ UNCHANGED <<fn, variant, daily_installs_total, dau_total, sale_period,
                   sale_boost_abs, retentionVars, dauVars, combineVars>>

\* one iteration of "for day_idx in range(len(dau_total))";
\* daily_installs_total[day_idx] past its end raises IndexError
RevenueLoop ==
    /\ fn = "simulate_revenue" /\ pc = "loop"
    /\ day_idx < Len(dau_total)
    /\ IF day_idx + 1 > Len(daily_installs_total)
       THEN /\ pc' = "raised" /\ exc' = "IndexError"
            /\ UNCHANGED <<daily_revenue, day_idx>>
       ELSE /\ daily_revenue' = Append(daily_revenue,
                  day_revenue(variant, daily_installs_total[day_idx + 1],
                              dau_total[day_idx + 1], sale_period,
                              sale_boost_abs, day_idx + 1))
            /\ day_idx' = day_idx + 1
            /\ UNCHANGED <<pc, exc>>
    /\ UNCHANGED <<fn, variant, daily_installs_total, dau_total, sale_period,
                   sale_boost_abs, retentionVars, dauVars, combineVars>>

\* return daily_revenue
RevenueReturn ==
    /\ fn = "simulate_revenue" /\ pc = "loop"
    /\ day_idx = Len(dau_total)
    /\ pc' = "returned"
    /\ UNCHANGED <<fn, exc, revenueVars, retentionVars, dauVars, combineVars>>

Next ==
    \/ CallLinearRetention
    \/ CallRetentionNewVariantA
    \/ CallRetentionNewVariantB
    \/ CallSimulateDau
    \/ CallCombineSources
    \/ CallSimulateRevenue
    \/ RevenueAssert
    \/ RevenueLoop
    \/ RevenueReturn

Spec == Init /\ [][Next]_vars

\* the calls of simulate_dau alone
SpecDau == Init /\ [][CallSimulateDau]_vars

\* ------------------------------------------------------------- properties
\* a <= b, and the smaller of two floats
RLe(a, b) == a.n * b.d <= b.n * a.d
RMin(a, b) == IF RLt(b, a) THEN b ELSE a

\* the call of f has ended
Ended(f) == fn = f /\ pc \in {"returned", "raised"}

\* the sum of g[i] over i in S, taken in any order
RECURSIVE RSum(_, _)
RSum(g, S) ==
    IF S = {} THEN Zero
    ELSE LET i == CHOOSE x \in S : TRUE
         IN  RAdd(g[i], RSum(g, S \ {i}))

\* the keys of the table on either side of the day asked for
KeysBelow == {k \in DOMAIN points : k < day}
KeysAbove == {k \in DOMAIN points : k > day}

\* C1 as stated: linear_retention(1, table) returns 1.0 and, for every day
\* that is a key of the table, linear_retention(day, table) returns table[day].
C1_AsStated ==
    Ended("linear_retention") =>
        /\ day = 1 => (pc = "returned" /\ ret = One)
        /\ day \in DOMAIN points => (pc = "returned" /\ ret = points[day])

\* C1 amended: linear_retention(1, table) returns 1.0 for every table (also
\* when the table stores another value under key 1), and for every key
\* day >= 2 of the table linear_retention(day, table) returns table[day].
C1_ExactAtKnownPoints ==
    Ended("linear_retention") =>
        /\ day = 1 => (pc = "returned" /\ ret = One)
        /\ (day \in DOMAIN points /\ day >= 2) =>
              (pc = "returned" /\ ret = points[day])

\* a key between two other keys whose straight line misses its value
C1_Witness ==
    /\ Ended("linear_retention") /\ pc = "returned"
    /\ day = 3 /\ DOMAIN points = {1, 2, 3, 4}
    /\ points[1] = Rat(1, 2) /\ points[2] = One /\ points[3] = Rat(1, 4)
    /\ points[4] = One
    /\ ret = Rat(1, 4)

\* C2 as stated: for every table with at least two points (keys positive
\* integers) and every day >= 1, linear_retention returns a value.
C2_Total ==
    (Ended("linear_retention") /\ day >= 1 /\ Cardinality(DOMAIN points) >= 2)
        => pc = "returned"

\* C3: for a day strictly between two keys, with prev the largest key below
\* it and next the smallest key above it, linear_retention returns
\* r1 + (r2 - r1) * (day - prev) / (next - prev), a value between
\* min(r1, r2) and max(r1, r2).
C3_Interpolation ==
    (Ended("linear_retention") /\ day \notin DOMAIN points
        /\ KeysBelow # {} /\ KeysAbove # {}) =>
        LET prev == MaxOf(KeysBelow)
            next == MinOf(KeysAbove)
            r1 == points[prev]
            r2 == points[next]
        IN  /\ pc = "returned"
            /\ ret = RAdd(r1, RDivInt(RMulInt(day - prev, RSub(r2, r1)), next - prev))
            /\ RLe(RMin(r1, r2), ret)
            /\ RLe(ret, RMax(r1, r2))

\* day 3 between the keys 2 and 4, with another key before them
C3_Witness ==
    /\ Ended("linear_retention") /\ pc = "returned"
    /\ day = 3 /\ DOMAIN points = {1, 2, 4}
    /\ points[1] = One /\ points[2] = Rat(1, 2) /\ points[4] = Zero
    /\ ret = Rat(1, 4)

C5_RejectsMismatch ==
    Ended("combine_sources") =>
        /\ (\E i, j \in 1..Len(dau_sources) :
               Len(dau_sources[i]) # Len(dau_sources[j])) => pc = "raised"
        /\ Len(dau_sources) = 0 => (pc = "returned" /\ total_dau = <<>>)

\* the series srcs in the order p
Permuted(srcs, p) == [k \in 1..Len(srcs) |-> srcs[p[k]]]
\* the permutations of 1..n
Perms(n) == {p \in [1..n -> 1..n] : \A a, b \in 1..n : p[a] = p[b] => a = b}

C7_CohortSum ==
    Ended("simulate_dau") =>
        /\ pc = "returned"
        /\ Len(dau) = Len(daily_installs)
        /\ \A t \in 1..Len(daily_installs) :
              dau[t] = RSum([s \in 1..t |->
                               RMulInt(daily_installs[s], retention_fn[t - s + 1])],
                            1..t)

\* three days of installs, every cohort still counted on day 3
C7_Witness ==
    /\ Ended("simulate_dau") /\ pc = "returned"
    /\ daily_installs = <<2, 1, 2>>
    /\ retention_fn = <<One, Rat(1, 2), Rat(1, 4)>>
    /\ dau = <<FromInt(2), FromInt(2), Rat(3, 1)>>

\* the install series is zero except for one count on day k
SingleInstallDay(k) ==
    /\ k \in 1..Len(daily_installs)
    /\ daily_installs[k] # 0
    /\ \A j \in 1..Len(daily_installs) : j # k => daily_installs[j] = 0

\* C8: for an install series that is zero except for a count N on day k,
\* the DAU of every day t >= k is N * retention_fn(t - k + 1) and the DAU
\* of every day t < k is 0.
C8_SingleCohort ==
    Ended("simulate_dau") =>
        \A k \in 1..Len(daily_installs) :
            SingleInstallDay(k) =>
                /\ pc = "returned"
                /\ \A t \in 1..Len(dau) :
                      dau[t] = IF t >= k
                               THEN RMulInt(daily_installs[k], retention_fn[t - k + 1])
                               ELSE Zero

\* two installs on day 2 of three
C8_Witness ==
    /\ Ended("simulate_dau") /\ pc = "returned"
    /\ daily_installs = <<0, 2, 0>>
    /\ retention_fn = <<One, Rat(1, 4), Rat(1, 2)>>
    /\ dau = <<Zero, FromInt(2), Rat(1, 2)>>

\* C9: for an install series of n zeros and any retention function,
\* simulate_dau returns n zeros.
C9_ZeroInstalls ==
    (Ended("simulate_dau")
        /\ \A s \in 1..Len(daily_installs) : daily_installs[s] = 0) =>
        /\ pc = "returned"
        /\ Len(dau) = Len(daily_installs)
        /\ \A t \in 1..Len(dau) : dau[t] = Zero

\* the longest series of zeros, full retention at every age
C9_Witness ==
    /\ Ended("simulate_dau") /\ pc = "returned"
    /\ Len(daily_installs) = MaxDays
    /\ \A s \in 1..MaxDays : daily_installs[s] = 0 /\ retention_fn[s] = One
    /\ dau = [t \in 1..MaxDays |-> Zero]

\* C10: when len(daily_installs_total) # len(dau_total), simulate_revenue
\* fails at its assert with no daily revenue entry computed, and never
\* returns.
C10_RejectsMismatch ==
    (fn = "simulate_revenue" /\ Len(daily_installs_total) # Len(dau_total)) =>
        /\ pc \in {"assert", "raised"}
        /\ pc = "raised" => exc = "AssertionError"
        /\ daily_revenue = <<>>

\* more DAU days than install days: the loop would have had an entry to
\* compute
C10_Witness ==
    /\ fn = "simulate_revenue" /\ pc = "raised" /\ exc = "AssertionError"
    /\ Len(daily_installs_total) = 1 /\ Len(dau_total) = 2
    /\ daily_revenue = <<>>

\* the purchase rate of calendar day d: the base rate, plus the boost on the
\* days of the sale window, both ends included
RateOfDay(d) ==
    IF sale_period # None /\ d \in sale_period[1]..sale_period[2]
    THEN RAdd(variant.base_purchase_rate, sale_boost_abs)
    ELSE variant.base_purchase_rate

\* the run of the round-number variant
RoundRun ==
    /\ variant = variant_round
    /\ daily_installs_total = [i \in 1..5 |-> 100]
    /\ dau_total = [i \in 1..5 |-> FromInt(100)]

\* C11: for equal-length inputs simulate_revenue returns, for every day index
\* i (calendar day i+1), installs[i] * purchase_rate * arppu
\* + dau[i] * ad_impressions_per_dau * ecpm / 1000, the purchase rate being
\* the base rate plus the boost exactly on the days start..end of a given
\* sale window; the round-number run gives 17.0 on every day without a sale
\* and 22.0 on the days 2-4, 17.0 on the days 1 and 5, with the sale (2, 4).
C11_DailyRevenue ==
    (fn = "simulate_revenue" /\ pc = "returned") =>
        /\ Len(daily_revenue) = Len(dau_total)
        /\ \A d \in 1..Len(dau_total) :
              daily_revenue[d] =
                  RAdd(RMul(FromInt(daily_installs_total[d]), RMul(RateOfDay(d), arppu)),
                       RMul(dau_total[d],
                            RDivInt(RMul(variant.ad_impressions_per_dau, variant.ecpm),
                                    1000)))
        /\ (RoundRun /\ sale_period = None) =>
              daily_revenue = [d \in 1..5 |-> FromInt(17)]
        /\ (RoundRun /\ sale_period = <<2, 4>>) =>
              daily_revenue = <<FromInt(17), FromInt(22), FromInt(22), FromInt(22),
                                FromInt(17)>>

\* the round-number run with the sale on the days 2..4 has returned
C11_Witness ==
    /\ fn = "simulate_revenue" /\ pc = "returned"
    /\ RoundRun /\ sale_period = <<2, 4>> /\ sale_boost_abs = Rat(1, 100)
    /\ daily_revenue[4] = FromInt(22) /\ daily_revenue[5] = FromInt(17)

\* C12: with a table of fewer than two points and a day > 1 that is not a
\* key and lies past every key of the table (so that extrapolation would be
\* needed), linear_retention fails with an error and returns no value.
C12_TooFewPoints ==
    (Ended("linear_retention") /\ Cardinality(DOMAIN points) < 2
        /\ day > 1 /\ day \notin DOMAIN points /\ KeysAbove = {}) =>
        /\ pc = "raised"
        /\ exc = "IndexError"

\* a single point at day 2, asked for day 4
C12_Witness ==
    /\ Ended("linear_retention") /\ pc = "raised" /\ exc = "IndexError"
    /\ DOMAIN points = {2} /\ points[2] = Rat(1, 2)
    /\ day = 4

\* the install series as long as daily_installs
SameLengthInstalls == [1..Len(daily_installs) -> InstallVals]

\* C13: the DAU of day t depends on the installs of the days 1..t only: an
\* install series of the same length that agrees with daily_installs on the
\* days 1..t yields the same DAU on day t (and so, t being any day, on the
\* days 1..t), whatever its later entries are.
C13_NoFutureInstalls ==
    (Ended("simulate_dau") /\ pc = "returned") =>
        \A other \in SameLengthInstalls :
            LET other_dau == simulate_dau(other, retention_fn).val
            IN  \A t \in 1..Len(daily_installs) :
                    (\A s \in 1..t : other[s] = daily_installs[s]) =>
                        other_dau[t] = dau[t]

\* three days with installs on the first day only and full retention: the
\* series that differ on the days 2 and 3 leave the DAU of day 1 as it is
C13_Witness ==
    /\ Ended("simulate_dau") /\ pc = "returned"
    /\ daily_installs = <<1, 0, 0>>
    /\ retention_fn = <<One, One, One>>
    /\ dau = <<One, One, One>>
    /\ simulate_dau(<<1, 2, 2>>, retention_fn).val = <<One, FromInt(3), FromInt(5)>>

\* C14: for every day <= 0 linear_retention returns 1.0 for any table (the
\* empty one too), while retention_new_variant_a and retention_new_variant_b
\* return 0.0; at day 1 linear_retention returns 1.0 and the exponential
\* variants return their r0, 0.58 and 0.52.
C14_AgesBelowOne ==
    /\ Ended("linear_retention") =>
          (day <= 1 => (pc = "returned" /\ ret = One))
    /\ Ended("retention_new_variant_a") =>
          /\ pc = "returned"
          /\ day <= 0 => ret = Zero
          /\ day = 1 => ret = Rat(58, 100)
    /\ Ended("retention_new_variant_b") =>
          /\ pc = "returned"
          /\ day <= 0 => ret = Zero
          /\ day = 1 => ret = Rat(52, 100)

\* the day before the install: 0.0 from the exponential variant A
C14_Witness ==
    /\ Ended("retention_new_variant_a") /\ pc = "returned"
    /\ day = 0
    /\ ret = Zero

\* the elementwise sum of two install series of one length
InstallSum(a, b) == [i \in 1..Len(a) |-> a[i] + b[i]]

\* the install series of a second source, as long as daily_installs: no
\* install or one install a day
SecondSourceInstalls == [1..Len(daily_installs) -> {0, 1}]

====
